---- MODULE Spec2Model ----
(***************************************************************************)
(* Orbit: the scheduled content engine (src/orbit.py) and the credential   *)
(* rotation / generation wrapper of the dashboard (src/dashboard.py).      *)
(*                                                                         *)
(* One behaviour follows one process: either the engine, which at each     *)
(* schedule tick is started afresh, loads its secrets, resolves a model    *)
(* and runs send_chaos once, or a dashboard session, which resolves a      *)
(* model name once and then serves ask_orbit calls.                        *)
(***************************************************************************)
EXTENDS Integers, Sequences, FiniteSets, TLC

VARIABLES
    prog,        \* which program this process runs: "orbit" or "dashboard"
    nKeys,       \* len(GEMINI_API_KEYS) after secrets loading (-1: the name is unbound)
    token,       \* TELEGRAM_TOKEN is present
    targets,     \* TARGET_IDS: per position "chat" or "REPLACE" (a placeholder id)
    pc,          \* position of the control flow
    keyIndex,    \* CURRENT_KEY_INDEX / st.session_state.key_index
    model,       \* the global model: its name and the credential it was resolved under
    attempt,     \* loop variable of the retry loop
    genLog,      \* requests issued to the generation backend by the current call
    rotLog,      \* results of the rotate_key calls of the current call
    response,    \* result of the last generate call (NoResponse = None)
    config,      \* result of load_config
    roll,        \* the draw, live from the draw to the dispatch
    path,        \* the content path the dispatch selected
    bc,          \* the broadcast_message call in progress
    bcLog,       \* send attempts made by the broadcast in progress
    sent,        \* kinds of message broadcast_message was called with in this run
    delivered,   \* kinds of message of which some chunk reached a destination in this run
    polls,       \* send_poll calls made in this run
    qi,          \* position in the quiz loops: question and destination
    pendingDiagnosis, \* the durable slot read and written across runs
    unit         \* a single function call followed on its own: function, argument, result

vars == <<prog, nKeys, token, targets, pc, keyIndex, model, attempt, genLog, rotLog,
          response, config, roll, path, bc, bcLog, sent, delivered, polls, qi,
          pendingDiagnosis, unit>>

(***************************************************************************)
(* Bounds of the model.                                                    *)
(***************************************************************************)
MaxPool == 2        \* credentials in the pool: 0..MaxPool
NumTargets == 2     \* entries of TARGET_IDS
MaxQuestions == 2   \* entries of a generated quiz list: 0..MaxQuestions

NoResponse == [kind |-> "none"]      \* no generate call has returned yet
Absent == [kind |-> "absent"]        \* the generate call returned None
NoModel == [name |-> <<>>, cred |-> -1]
NoBroadcast == [kind |-> "none", d |-> 0, c |-> 0, fmt |-> "rich"]
NoDiagnosis == "absent"
NoCall == [fn |-> "none", arg |-> <<>>, out |-> <<>>, returned |-> FALSE]

(***************************************************************************)
(* Model resolver.  An endpoint name is a sequence of tokens; TokenHas     *)
(* says which of the substrings the resolver looks for occur in a token.   *)
(***************************************************************************)
TokenHas(tok, needle) ==
    CASE tok = "gemini-1.5-flash" -> needle \in {"gemini-1.5-flash", "flash"}
      [] tok = "gemini-1.0-flash" -> needle \in {"flash"}
      [] tok = "gemini-2.0-flash" -> needle \in {"gemini-2", "flash"}
      [] tok = "-latest"          -> needle \in {"latest"}
      [] tok = "-exp"             -> needle \in {"exp"}
      [] OTHER                    -> FALSE

\* 'needle' in m
Contains(m, needle) == \E i \in 1..Len(m) : TokenHas(m[i], needle)

\* m.replace("models/", "")
StripModels(m) == SelectSeq(m, LAMBDA t : t # "models/")

Endpoint(name, gen) == [name |-> name, gen |-> gen]

\* listings genai.list_models() may answer
Listings ==
    { <<Endpoint(<<"models/", "gemini-pro">>, TRUE),
        Endpoint(<<"models/", "gemini-2.0-flash">>, TRUE),
        Endpoint(<<"models/", "gemini-1.5-flash", "-latest">>, TRUE),
        Endpoint(<<"models/", "gemini-1.5-flash">>, TRUE)>>,
      <<Endpoint(<<"models/", "embedding-001">>, FALSE),
        Endpoint(<<"models/", "gemini-2.0-flash", "-exp">>, TRUE),
        Endpoint(<<"models/", "gemini-1.0-flash">>, TRUE)>>,
      <<Endpoint(<<"models/", "gemini-1.0-flash">>, FALSE),
        Endpoint(<<"models/", "gemini-2.0-flash">>, TRUE),
        Endpoint(<<"models/", "gemini-pro">>, TRUE)>>,
      <<Endpoint(<<"models/", "embedding-001">>, FALSE)>> }

\* what a discovery may do: raise (err), or answer a listing
Discovery ==
    {[err |-> FALSE, list |-> l] : l \in Listings} \cup {[err |-> TRUE, list |-> <<>>]}

DefaultModel == <<"gemini-1.5-flash">>

ValidModels(listing) ==
    LET gen == SelectSeq(listing, LAMBDA e : e.gen)
    IN  [i \in 1..Len(gen) |-> gen[i].name]

IsStableFlash(m) ==
    Contains(m, "gemini-1.5-flash") /\ ~Contains(m, "latest") /\ ~Contains(m, "exp")

IsAnyFlash(m) ==
    Contains(m, "flash") /\ ~Contains(m, "gemini-2") /\ ~Contains(m, "exp")

\* the first name of valid that passes the priority 1 test; valid has one
FirstStableFlash(valid) ==
    valid[CHOOSE i \in 1..Len(valid) :
              IsStableFlash(valid[i]) /\ \A j \in 1..(i-1) : ~IsStableFlash(valid[j])]

\* the first name of valid that passes the priority 2 test; valid has one
FirstAnyFlash(valid) ==
    valid[CHOOSE i \in 1..Len(valid) :
              IsAnyFlash(valid[i]) /\ \A j \in 1..(i-1) : ~IsAnyFlash(valid[j])]

\* a resolver that tries the any-flash test before the 1.5-flash test
ResolveNameAnyFlashFirst(disc) ==
    IF disc.err THEN DefaultModel
    ELSE LET valid == ValidModels(disc.list)
         IN  IF \E i \in 1..Len(valid) : IsAnyFlash(valid[i])
                THEN StripModels(FirstAnyFlash(valid))
             ELSE IF \E i \in 1..Len(valid) : IsStableFlash(valid[i])
                THEN StripModels(FirstStableFlash(valid))
             ELSE IF Len(valid) > 0
                THEN StripModels(valid[1])
             ELSE DefaultModel

\* a resolver that forces the default only when the discovery raised
ResolveNameNoForce(disc) ==
    IF disc.err THEN DefaultModel
    ELSE LET valid == ValidModels(disc.list)
         IN  IF \E i \in 1..Len(valid) : IsStableFlash(valid[i])
                THEN StripModels(FirstStableFlash(valid))
             ELSE IF \E i \in 1..Len(valid) : IsAnyFlash(valid[i])
                THEN StripModels(FirstAnyFlash(valid))
             ELSE IF Len(valid) > 0
                THEN StripModels(valid[1])
             ELSE <<>>

\* get_valid_model / resolve_model_name: the name of the model chosen
ResolveName(disc) ==
    IF disc.err THEN DefaultModel
    ELSE LET valid == ValidModels(disc.list)
         IN  IF \E i \in 1..Len(valid) : IsStableFlash(valid[i])
                THEN StripModels(FirstStableFlash(valid))
             ELSE IF \E i \in 1..Len(valid) : IsAnyFlash(valid[i])
                THEN StripModels(FirstAnyFlash(valid))
             ELSE IF Len(valid) > 0
                THEN StripModels(valid[1])
             ELSE DefaultModel

\* the model object: the name resolved, and the credential it was resolved under
GetValidModel(disc, cred) == [name |-> ResolveName(disc), cred |-> cred]

(***************************************************************************)
(* Credential rotation.                                                    *)
(***************************************************************************)
\* rotate_key with the cursor left where it is
NextIndexStuck(idx, n) == idx

\* rotate_key with the wrap-around forgotten
NextIndexNoWrap(idx, n) == idx + 1

\* the index rotate_key moves the cursor to
NextIndex(idx, n) == (idx + 1) % n

\* a rotation that keeps the model it had
RotateKeyStale(idx, n, mdl, disc) ==
    IF n > 1
        THEN [ok |-> TRUE, idx |-> NextIndex(idx, n), model |-> mdl]
        ELSE [ok |-> FALSE, idx |-> idx, model |-> mdl]

\* orbit.py rotate_key: the result, the new cursor and the new global model
RotateKey(idx, n, mdl, disc) ==
    IF n > 1
        THEN [ok |-> TRUE, idx |-> NextIndex(idx, n),
              model |-> GetValidModel(disc, NextIndex(idx, n))]
        ELSE [ok |-> FALSE, idx |-> idx, model |-> mdl]

\* dashboard.py rotate_key: the model is re-instantiated from the cached name
DashRotateKey(idx, n, mdl) ==
    IF n <= 1
        THEN [ok |-> FALSE, idx |-> idx, model |-> mdl]
        ELSE [ok |-> TRUE, idx |-> NextIndex(idx, n), model |-> mdl]

(***************************************************************************)
(* Resilient generator.                                                    *)
(***************************************************************************)
MaxRetries == 3

\* what one model.generate_content request may do: answer, or raise an error whose
\* text contains "404", contains "429" or "403", or contains none of them
Outcomes == {"ok", "404", "quota", "other"}

\* generate_content_safe retrying an unclassified error without counting the attempt
OrbitOnErrorRetryOther(out, att, idx, n, mdl, disc) ==
    CASE out = "404" ->
           [done |-> FALSE, attempt |-> att + 1, idx |-> idx,
            model |-> GetValidModel(disc, idx), rot |-> <<>>]
      [] out = "quota" ->
           LET r == RotateKey(idx, n, mdl, disc)
           IN  [done |-> FALSE, attempt |-> att + 1, idx |-> r.idx,
                model |-> r.model, rot |-> <<r.ok>>]
      [] OTHER ->
           [done |-> FALSE, attempt |-> att, idx |-> idx, model |-> mdl, rot |-> <<>>]

\* an except branch in which a successful rotation does not use an attempt
OrbitOnErrorFreeRotation(out, att, idx, n, mdl, disc) ==
    CASE out = "404" ->
           [done |-> FALSE, attempt |-> att + 1, idx |-> idx,
            model |-> GetValidModel(disc, idx), rot |-> <<>>]
      [] out = "quota" ->
           LET r == RotateKey(idx, n, mdl, disc)
           IN  [done |-> FALSE, attempt |-> IF r.ok THEN att ELSE att + 1, idx |-> r.idx,
                model |-> r.model, rot |-> <<r.ok>>]
      [] OTHER ->
           [done |-> TRUE, attempt |-> att, idx |-> idx, model |-> mdl, rot |-> <<>>]

\* an except branch that answers a 404 by rotating, as it does a quota error
OrbitOnErrorRotateOn404(out, att, idx, n, mdl, disc) ==
    CASE out \in {"404", "quota"} ->
           LET r == RotateKey(idx, n, mdl, disc)
           IN  [done |-> FALSE, attempt |-> att + 1, idx |-> r.idx,
                model |-> r.model, rot |-> <<r.ok>>]
      [] OTHER ->
           [done |-> TRUE, attempt |-> att, idx |-> idx, model |-> mdl, rot |-> <<>>]

\* an except branch that gives up when rotate_key finds no backup
OrbitOnErrorGiveUp(out, att, idx, n, mdl, disc) ==
    CASE out = "404" ->
           [done |-> FALSE, attempt |-> att + 1, idx |-> idx,
            model |-> GetValidModel(disc, idx), rot |-> <<>>]
      [] out = "quota" ->
           LET r == RotateKey(idx, n, mdl, disc)
           IN  [done |-> ~r.ok, attempt |-> att + 1, idx |-> r.idx,
                model |-> r.model, rot |-> <<r.ok>>]
      [] OTHER ->
           [done |-> TRUE, attempt |-> att, idx |-> idx, model |-> mdl, rot |-> <<>>]

\* orbit.py generate_content_safe, the except branch of one iteration: whether the
\* call returns None at once, the loop variable of the next iteration, the cursor
\* and the model after it, and the result of rotate_key when it was called
OrbitOnError(out, att, idx, n, mdl, disc) ==
    CASE out = "404" ->
           [done |-> FALSE, attempt |-> att + 1, idx |-> idx,
            model |-> GetValidModel(disc, idx), rot |-> <<>>]
      [] out = "quota" ->
           LET r == RotateKey(idx, n, mdl, disc)
           IN  [done |-> FALSE, attempt |-> att + 1, idx |-> r.idx,
                model |-> r.model, rot |-> <<r.ok>>]
      [] OTHER ->
           [done |-> TRUE, attempt |-> att, idx |-> idx, model |-> mdl, rot |-> <<>>]

\* dashboard.py ask_orbit: max_retries = len(GEMINI_API_KEYS) + 1
DashMaxRetries(n) == n + 1

\* dashboard.py ask_orbit, the except branch of one iteration
DashOnError(out, att, idx, n, mdl) ==
    IF out = "quota"
        THEN LET r == DashRotateKey(idx, n, mdl)
             IN  [done |-> ~r.ok, attempt |-> att + 1, idx |-> r.idx,
                  model |-> r.model, rot |-> <<r.ok>>]
        ELSE [done |-> ~(att < DashMaxRetries(n) - 1), attempt |-> att + 1,
              idx |-> idx, model |-> mdl, rot |-> <<>>]

\* the question flavours of a generated quiz list: well formed, a field missing,
\* correct_id outside the options
Flavours == {"ok", "missing", "badidx"}

QuizLists == UNION {[1..k -> Flavours] : k \in 0..MaxQuestions}

Body(text, delim, qkind, qs) == [text |-> text, delim |-> delim, qkind |-> qkind, qs |-> qs]

\* the texts a successful request may answer with, per caller
GenBodies(p) ==
    CASE p = "Fact" -> {Body(t, FALSE, "na", <<>>) : t \in {"empty", "short", "long"}}
      [] p = "QuizBatch" ->
           {Body("empty", FALSE, "na", <<>>), Body("short", FALSE, "invalid", <<>>),
            Body("short", FALSE, "dict", <<"ok">>)}
           \cup {Body("short", FALSE, "list", q) : q \in QuizLists}
      [] p = "MysteryCase" ->
           {Body("empty", FALSE, "na", <<>>)}
           \cup {Body(t, d, "na", <<>>) : t \in {"short", "long"}, d \in BOOLEAN}
      [] OTHER -> {Body("short", FALSE, "na", <<>>)}

Response(key, body) == [kind |-> "text", key |-> key, body |-> body]

\* a request: the active credential, the credential its model was resolved under,
\* and what the backend did
Request(key, mdl, out) == [key |-> key, mcred |-> mdl.cred, out |-> out]

(***************************************************************************)
(* Chunked delivery.  A text is the sequence of the lengths of its lines   *)
(* (text.split('\n')); a chunk is a sequence of lines, each followed by a  *)
(* line break (term) or joined by line breaks (the text sent whole).       *)
(***************************************************************************)
MaxLength == 4000

Range(s) == {s[i] : i \in 1..Len(s)}

RECURSIVE Sum(_)
Sum(s) == IF s = <<>> THEN 0 ELSE Head(s) + Sum(Tail(s))

\* len(text)
TextLen(lines) == Sum(lines) + Len(lines) - 1

Chunk(lines, term) == [lines |-> lines, term |-> term]

\* len(chunk)
ChunkLen(ch) == Sum(ch.lines) + (IF ch.term THEN Len(ch.lines) ELSE Len(ch.lines) - 1)

\* the loop of send_safe_message over the lines left, with current_chunk = cur
RECURSIVE SplitLines(_, _)
SplitLines(lines, cur) ==
    IF lines = <<>>
        THEN IF cur # <<>> THEN <<Chunk(cur, TRUE)>> ELSE <<>>
        ELSE IF ChunkLen(Chunk(cur, TRUE)) + Head(lines) + 1 > MaxLength
            THEN <<Chunk(cur, TRUE)>> \o SplitLines(Tail(lines), <<Head(lines)>>)
            ELSE SplitLines(Tail(lines), Append(cur, Head(lines)))

\* send_safe_message: the chunks handed to send_chunk, in order
Chunks(lines) ==
    IF TextLen(lines) <= MaxLength
        THEN <<Chunk(lines, FALSE)>>
        ELSE SplitLines(lines, <<>>)

\* the lines of a generated text
GenText(t) ==
    CASE t = "short" -> <<120>>
      [] t = "long"  -> <<3000, 3000>>
      [] OTHER       -> <<0>>

\* the lines of the text broadcast_message is called with, per kind of message
MessageText(kind, r) ==
    CASE kind = "fact"     -> <<22, 0>> \o GenText(r.body.text)
      [] kind = "intro"    -> <<60, 0, 50>>
      [] kind = "banner"   -> <<54, 0, 61>>
      [] kind = "case"     -> <<42, 0>> \o GenText(r.body.text)
      [] kind = "suspense" -> <<69>>
      [] kind = "reveal"   -> <<27, 0>> \o GenText(r.body.text)
      [] kind = "fallback" -> <<85>>
      [] OTHER             -> <<70>>

\* "REPLACE" in chat_id
IsPlaceholder(t) == t = "REPLACE"

\* the next position after d of TARGET_IDS that is no placeholder; NumTargets + 1 if none
NextReal(tg, d) ==
    IF \E e \in (d+1)..NumTargets : ~IsPlaceholder(tg[e])
        THEN CHOOSE e \in (d+1)..NumTargets :
                 ~IsPlaceholder(tg[e]) /\ \A f \in (d+1)..(e-1) : IsPlaceholder(tg[f])
        ELSE NumTargets + 1

Attempt(d, c, fmt, ok) == [d |-> d, c |-> c, fmt |-> fmt, ok |-> ok]

\* broadcast_message without its try / except: a failed plain send ends the broadcast
AfterSendAbort(b, ok, n, tg) ==
    IF ok
        THEN IF b.c < n
                THEN [b EXCEPT !.c = b.c + 1, !.fmt = "rich"]
                ELSE [b EXCEPT !.d = NextReal(tg, b.d), !.c = 1, !.fmt = "rich"]
        ELSE IF b.fmt = "rich"
                THEN [b EXCEPT !.fmt = "plain"]
                ELSE [b EXCEPT !.d = NumTargets + 1, !.c = 1, !.fmt = "rich"]

\* a send_chunk that makes the plain attempt whether or not the rich one failed
AfterSendResend(b, ok, n, tg) ==
    IF b.fmt = "rich"
        THEN [b EXCEPT !.fmt = "plain"]
        ELSE IF ok
                THEN IF b.c < n
                        THEN [b EXCEPT !.c = b.c + 1, !.fmt = "rich"]
                        ELSE [b EXCEPT !.d = NextReal(tg, b.d), !.c = 1, !.fmt = "rich"]
                ELSE [b EXCEPT !.d = NextReal(tg, b.d), !.c = 1, !.fmt = "rich"]

\* broadcast_message / send_safe_message / send_chunk after one bot.send_message
\* call: the position of the next call
AfterSend(b, ok, n, tg) ==
    IF ok
        THEN IF b.c < n
                THEN [b EXCEPT !.c = b.c + 1, !.fmt = "rich"]
                ELSE [b EXCEPT !.d = NextReal(tg, b.d), !.c = 1, !.fmt = "rich"]
        ELSE IF b.fmt = "rich"
                THEN [b EXCEPT !.fmt = "plain"]
                ELSE [b EXCEPT !.d = NextReal(tg, b.d), !.c = 1, !.fmt = "rich"]

(***************************************************************************)
(* Content selector.                                                       *)
(***************************************************************************)
Flags == {"--quiz", "--brain_teaser", "--fact"}

\* the roll: a debug override of sys.argv, or the random draw r
RollOf(argv, r) ==
    IF "--quiz" \in argv THEN 90
    ELSE IF "--brain_teaser" \in argv THEN 100
    ELSE IF "--fact" \in argv THEN 60
    ELSE r

\* the dispatch with the upper end of the Fact range excluded
OutcomeShifted(r) ==
    IF r <= 50 THEN "Silence"
    ELSE IF 51 <= r /\ r < 85 THEN "Fact"
    ELSE IF 86 <= r /\ r <= 98 THEN "QuizBatch"
    ELSE "MysteryCase"

\* the branch of send_chaos a roll selects
Outcome(r) ==
    IF r <= 50 THEN "Silence"
    ELSE IF 51 <= r /\ r <= 85 THEN "Fact"
    ELSE IF 86 <= r /\ r <= 98 THEN "QuizBatch"
    ELSE "MysteryCase"

\* what load_config may return: None, or a record with so many interests and units
NoConfig == [present |-> FALSE, interests |-> 0, units |-> 0]
Configs ==
    {NoConfig} \cup {[present |-> TRUE, interests |-> i, units |-> u] :
                        i \in 0..1, u \in 0..1}

\* response and response.text
HasText(r) == r.kind = "text" /\ r.body.text # "empty"

NoPosition == [q |-> 0, d |-> 0]

Poll(q, d, flavour, ok) == [q |-> q, d |-> d, flavour |-> flavour, ok |-> ok]

Step(next, kind) == [next |-> next, kind |-> kind]

\* send_chaos, from the dispatch on the roll to the first call of the branch
Branch(p, cfg) ==
    CASE p = "Silence"   -> Step("done", "none")
      [] p = "Fact"      -> IF cfg.interests = 0 THEN Step("crashed", "none")
                                                 ELSE Step("gen", "none")
      [] p = "QuizBatch" -> IF cfg.units = 0 THEN Step("crashed", "none")
                                             ELSE Step("bcast", "intro")
      [] OTHER           -> Step("bcast", "banner")

\* send_chaos ending the mystery case without a word when there is no response
OnResultSilentFailure(p, r) ==
    CASE p = "Fact" ->
           IF HasText(r) THEN Step("bcast", "fact") ELSE Step("done", "none")
      [] p = "QuizBatch" ->
           IF HasText(r) /\ r.body.qkind \in {"dict", "list"} /\ Len(r.body.qs) > 0
               THEN Step("polls", "none")
               ELSE Step("done", "none")
      [] OTHER ->
           IF HasText(r) THEN Step("bcast", "case") ELSE Step("done", "none")

\* send_chaos, what follows the return of generate_content_safe
OnResult(p, r) ==
    CASE p = "Fact" ->
           IF HasText(r) THEN Step("bcast", "fact") ELSE Step("done", "none")
      [] p = "QuizBatch" ->
           IF HasText(r) /\ r.body.qkind \in {"dict", "list"} /\ Len(r.body.qs) > 0
               THEN Step("polls", "none")
               ELSE Step("done", "none")
      [] OTHER ->
           IF HasText(r) THEN Step("bcast", "case") ELSE Step("bcast", "sysfail")

\* send_chaos ending the mystery case after the suspense notice
AfterBroadcastNoReveal(kind, r) ==
    CASE kind \in {"intro", "banner"} -> Step("gen", "none")
      [] kind = "case"     -> Step("bcast", "suspense")
      [] OTHER             -> Step("done", "none")

\* send_chaos revealing without looking at len(parts)
AfterBroadcastAlwaysReveal(kind, r) ==
    CASE kind \in {"intro", "banner"} -> Step("gen", "none")
      [] kind = "case"     -> Step("bcast", "suspense")
      [] kind = "suspense" -> Step("bcast", "reveal")
      [] OTHER             -> Step("done", "none")

\* send_chaos, what follows the return of broadcast_message
AfterBroadcast(kind, r) ==
    CASE kind \in {"intro", "banner"} -> Step("gen", "none")
      [] kind = "case"     -> Step("bcast", "suspense")
      [] kind = "suspense" -> IF r.body.delim THEN Step("bcast", "reveal")
                                              ELSE Step("bcast", "fallback")
      [] OTHER             -> Step("done", "none")

\* the retry loop goes on
LoopContinues(att, max) == att < max

\* a send_poll statement that reaches the backend whatever the entry holds
PollCallsUnchecked(q, d, flavour) ==
    IF flavour = "ok"
        THEN {<<Poll(q, d, flavour, ok)>> : ok \in BOOLEAN}
        ELSE {<<Poll(q, d, flavour, FALSE)>>}

\* send_chaos, one send_poll statement: the calls that reach the backend.  With
\* a field missing the arguments raise before the call; with correct_id outside
\* the options the call is made and the backend rejects it.
PollCalls(q, d, flavour) ==
    CASE flavour = "missing" -> {<<>>}
      [] flavour = "badidx"  -> {<<Poll(q, d, flavour, FALSE)>>}
      [] OTHER               -> {<<Poll(q, d, flavour, ok)>> : ok \in BOOLEAN}

\* quiz loops that leave the destinations after the first one
AfterPollFirstOnly(pos, nq, tg) ==
    IF pos.q < nq
        THEN [q |-> pos.q + 1, d |-> NextReal(tg, 0)]
        ELSE NoPosition

\* send_chaos, the quiz loops after one send_poll statement: the next position
AfterPoll(pos, nq, tg) ==
    IF NextReal(tg, pos.d) <= NumTargets
        THEN [pos EXCEPT !.d = NextReal(tg, pos.d)]
        ELSE IF pos.q < nq
            THEN [q |-> pos.q + 1, d |-> NextReal(tg, 0)]
            ELSE NoPosition

(***************************************************************************)
(* The state machine.                                                      *)
(***************************************************************************)
Fresh ==
    /\ pc = "boot"
    /\ keyIndex = 0
    /\ model = NoModel
    /\ attempt = 0
    /\ genLog = <<>>
    /\ rotLog = <<>>
    /\ response = NoResponse
    /\ config = NoConfig
    /\ roll = 0
    /\ path = "None"
    /\ bc = NoBroadcast
    /\ bcLog = <<>>
    /\ sent = <<>>
    /\ delivered = {}
    /\ polls = <<>>
    /\ qi = NoPosition

\* the local secrets file: unreadable, or its TELEGRAM_TOKEN and its GEMINI_KEYS
SecretsFiles ==
    {[readable |-> FALSE, token |-> FALSE, keys |-> 0]}
        \cup {[readable |-> TRUE, token |-> t, keys |-> k] : t \in BOOLEAN, k \in 0..MaxPool}

\* orbit.py, secrets management.  envKeys is -1 when GEMINI_KEYS is unset or
\* empty, else the number of non-blank keys in it; the nKeys of the result is -1
\* when GEMINI_API_KEYS was never bound, so that reading it raises NameError.
LoadSecrets(envToken, envKeys, file) ==
    IF ~envToken \/ envKeys = -1
        THEN IF file.readable
                THEN [token |-> envToken \/ file.token, nKeys |-> file.keys]
                ELSE [token |-> envToken, nKeys |-> -1]
        ELSE [token |-> TRUE, nKeys |-> envKeys]

\* the run ends at once
SecretsMissingKeysOnly(tok, n) == n <= 0

\* orbit.py, the end of secrets management: NameError, or the test before sys.exit(1)
SecretsMissing(tok, n) == ~tok \/ n <= 0

Init ==
    /\ \/ /\ prog = "orbit"
          /\ \E envToken \in BOOLEAN, envKeys \in -1..MaxPool, file \in SecretsFiles :
                 LET s == LoadSecrets(envToken, envKeys, file)
                 IN  token = s.token /\ nKeys = s.nKeys
          /\ targets \in [1..NumTargets -> {"chat", "REPLACE"}]
       \/ /\ prog = "dashboard"
          /\ token = TRUE
          /\ targets = [i \in 1..NumTargets |-> "chat"]
          /\ nKeys \in 0..MaxPool
    /\ pendingDiagnosis = NoDiagnosis
    /\ unit = NoCall
    /\ Fresh

\* the control state a step leads to
Enter(st) ==
    /\ pc' = IF st.next = "polls" /\ NextReal(targets, 0) > NumTargets
                THEN "done" ELSE st.next
    /\ bc' = IF st.next = "bcast"
                THEN [kind |-> st.kind, d |-> NextReal(targets, 0), c |-> 1, fmt |-> "rich"]
                ELSE NoBroadcast
    /\ bcLog' = <<>>
    /\ sent' = IF st.next = "bcast" THEN Append(sent, st.kind) ELSE sent
    /\ attempt' = 0
    /\ genLog' = <<>>
    /\ rotLog' = <<>>
    /\ qi' = IF st.next = "polls" /\ NextReal(targets, 0) <= NumTargets
                THEN [q |-> 1, d |-> NextReal(targets, 0)] ELSE NoPosition

\* orbit.py, module level: secrets, sys.exit(1), configure_genai, get_valid_model
Startup ==
    /\ prog = "orbit" /\ pc = "boot"
    /\ IF SecretsMissing(token, nKeys)
          THEN pc' = "exit1" /\ UNCHANGED <<keyIndex, model>>
          ELSE \E disc \in Discovery :
                   /\ pc' = "main"
                   /\ keyIndex' = 0
                   /\ model' = GetValidModel(disc, 0)
    /\ UNCHANGED <<unit, prog, nKeys, token, targets, attempt, genLog, rotLog, response, config,
                   roll, path, bc, bcLog, sent, delivered, polls, qi, pendingDiagnosis>>

\* send_chaos: load_config, return when there is none
LoadConfig ==
    /\ prog = "orbit" /\ pc = "main"
    /\ \E cfg \in Configs :
           /\ config' = cfg
           /\ pc' = IF cfg.present THEN "draw" ELSE "done"
    /\ UNCHANGED <<unit, prog, nKeys, token, targets, keyIndex, model, attempt, genLog, rotLog,
                   response, roll, path, bc, bcLog, sent, delivered, polls, qi,
                   pendingDiagnosis>>

\* send_chaos: the roll
Draw ==
    /\ prog = "orbit" /\ pc = "draw"
    /\ \E argv \in SUBSET Flags, r \in 1..100 : roll' = RollOf(argv, r)
    /\ pc' = "rolled"
    /\ UNCHANGED <<unit, prog, nKeys, token, targets, keyIndex, model, attempt, genLog, rotLog,
                   response, config, path, bc, bcLog, sent, delivered, polls, qi,
                   pendingDiagnosis>>

\* send_chaos: the if / elif chain on the roll, up to the first call of the branch
Dispatch ==
    /\ prog = "orbit" /\ pc = "rolled"
    /\ path' = Outcome(roll)
    /\ Enter(Branch(Outcome(roll), config))
    /\ roll' = 0
    /\ config' = NoConfig
    /\ UNCHANGED <<unit, prog, nKeys, token, targets, keyIndex, model, response, delivered,
                   polls, pendingDiagnosis>>

\* generate_content_safe: one iteration of the retry loop
GenStep ==
    /\ prog = "orbit" /\ pc = "gen"
    /\ \E out \in Outcomes, disc \in Discovery, body \in GenBodies(path) :
           /\ genLog' = Append(genLog, Request(keyIndex, model, out))
           /\ IF out = "ok"
                 THEN /\ response' = Response(keyIndex, body)
                      /\ pc' = "resp"
                      /\ UNCHANGED <<keyIndex, model, attempt, rotLog>>
                 ELSE LET h == OrbitOnError(out, attempt, keyIndex, nKeys, model, disc)
                      IN  /\ keyIndex' = h.idx
                          /\ model' = h.model
                          /\ attempt' = h.attempt
                          /\ rotLog' = rotLog \o h.rot
                          /\ response' = IF h.done \/ ~LoopContinues(h.attempt, MaxRetries)
                                            THEN Absent ELSE response
                          /\ pc' = IF h.done \/ ~LoopContinues(h.attempt, MaxRetries)
                                      THEN "resp" ELSE "gen"
    /\ UNCHANGED <<unit, prog, nKeys, token, targets, config, roll, path, bc, bcLog, sent,
                   delivered, polls, qi, pendingDiagnosis>>

\* send_chaos: the use of the result of generate_content_safe
Respond ==
    /\ prog = "orbit" /\ pc = "resp"
    /\ Enter(OnResult(path, response))
    /\ UNCHANGED <<unit, prog, nKeys, token, targets, keyIndex, model, response, config, roll,
                   path, delivered, polls, pendingDiagnosis>>

\* send_chunk: one bot.send_message call of the broadcast in progress
SendAttempt ==
    /\ prog = "orbit" /\ pc = "bcast" /\ bc.d <= NumTargets
    /\ \E ok \in BOOLEAN :
           /\ bcLog' = Append(bcLog, Attempt(bc.d, bc.c, bc.fmt, ok))
           /\ delivered' = IF ok THEN delivered \cup {bc.kind} ELSE delivered
           /\ bc' = AfterSend(bc, ok, Len(Chunks(MessageText(bc.kind, response))), targets)
    /\ UNCHANGED <<unit, prog, nKeys, token, targets, pc, keyIndex, model, attempt, genLog,
                   rotLog, response, config, roll, path, sent, polls, qi,
                   pendingDiagnosis>>

\* broadcast_message returns to send_chaos
BroadcastReturn ==
    /\ prog = "orbit" /\ pc = "bcast" /\ bc.d > NumTargets
    /\ Enter(AfterBroadcast(bc.kind, response))
    /\ UNCHANGED <<unit, prog, nKeys, token, targets, keyIndex, model, response, config, roll,
                   path, delivered, polls, pendingDiagnosis>>

\* send_chaos: one bot.send_poll statement of the quiz loops
PollStep ==
    /\ prog = "orbit" /\ pc = "polls"
    /\ LET fl == response.body.qs[qi.q]
           nxt == AfterPoll(qi, Len(response.body.qs), targets)
       IN  /\ \E calls \in PollCalls(qi.q, qi.d, fl) : polls' = polls \o calls
           /\ qi' = nxt
           /\ pc' = IF nxt = NoPosition THEN "done" ELSE "polls"
    /\ UNCHANGED <<unit, prog, nKeys, token, targets, keyIndex, model, attempt, genLog, rotLog,
                   response, config, roll, path, bc, bcLog, sent, delivered,
                   pendingDiagnosis>>

\* the scheduler starts the engine again: a fresh process, the same environment
NewRun ==
    /\ prog = "orbit" /\ pc \in {"done", "crashed", "exit1"}
    /\ pc' = "boot"
    /\ keyIndex' = 0
    /\ model' = NoModel
    /\ attempt' = 0
    /\ genLog' = <<>>
    /\ rotLog' = <<>>
    /\ response' = NoResponse
    /\ config' = NoConfig
    /\ roll' = 0
    /\ path' = "None"
    /\ bc' = NoBroadcast
    /\ bcLog' = <<>>
    /\ sent' = <<>>
    /\ delivered' = {}
    /\ polls' = <<>>
    /\ qi' = NoPosition
    /\ UNCHANGED <<unit, prog, nKeys, token, targets, pendingDiagnosis>>

\* dashboard.py, module level: st.stop without keys, key_index, resolve_model_name
DashStartup ==
    /\ prog = "dashboard" /\ pc = "boot"
    /\ IF nKeys = 0
          THEN pc' = "stopped" /\ UNCHANGED <<keyIndex, model>>
          ELSE \E disc \in Discovery :
                   /\ pc' = "idle"
                   /\ keyIndex' = 0
                   /\ model' = GetValidModel(disc, 0)
    /\ UNCHANGED <<unit, prog, nKeys, token, targets, attempt, genLog, rotLog, response, config,
                   roll, path, bc, bcLog, sent, delivered, polls, qi, pendingDiagnosis>>

\* ask_orbit is called
AskOrbit ==
    /\ prog = "dashboard" /\ pc = "idle"
    /\ pc' = "gen"
    /\ attempt' = 0
    /\ genLog' = <<>>
    /\ rotLog' = <<>>
    /\ response' = NoResponse
    /\ UNCHANGED <<unit, prog, nKeys, token, targets, keyIndex, model, config, roll, path, bc,
                   bcLog, sent, delivered, polls, qi, pendingDiagnosis>>

\* ask_orbit: one iteration of the retry loop
DashGenStep ==
    /\ prog = "dashboard" /\ pc = "gen"
    /\ \E out \in Outcomes, body \in GenBodies(path) :
           /\ genLog' = Append(genLog, Request(keyIndex, model, out))
           /\ IF out = "ok"
                 THEN /\ response' = Response(keyIndex, body)
                      /\ pc' = "idle"
                      /\ UNCHANGED <<keyIndex, model, attempt, rotLog>>
                 ELSE LET h == DashOnError(IF out = "404" THEN "other" ELSE out,
                                           attempt, keyIndex, nKeys, model)
                      IN  /\ keyIndex' = h.idx
                          /\ model' = h.model
                          /\ attempt' = h.attempt
                          /\ rotLog' = rotLog \o h.rot
                          /\ response' =
                                 IF h.done \/ ~LoopContinues(h.attempt, DashMaxRetries(nKeys))
                                    THEN Absent ELSE response
                          /\ pc' = IF h.done \/ ~LoopContinues(h.attempt, DashMaxRetries(nKeys))
                                      THEN "idle" ELSE "gen"
    /\ UNCHANGED <<unit, prog, nKeys, token, targets, config, roll, path, bc, bcLog, sent,
                   delivered, polls, qi, pendingDiagnosis>>

Next ==
    \/ Startup
    \/ LoadConfig
    \/ Draw
    \/ Dispatch
    \/ GenStep
    \/ Respond
    \/ SendAttempt
    \/ BroadcastReturn
    \/ PollStep
    \/ NewRun
    \/ DashStartup
    \/ AskOrbit
    \/ DashGenStep

Spec == Init /\ [][Next]_vars

(***************************************************************************)
(* Large pools.  The same program with up to LargePool credentials, the    *)
(* token present and every destination a real chat.                        *)
(***************************************************************************)
LargePool == 4      \* credentials in the pool: 1..LargePool

PoolInit ==
    /\ prog \in {"orbit", "dashboard"}
    /\ token = TRUE
    /\ targets = [i \in 1..NumTargets |-> "chat"]
    /\ nKeys \in 1..LargePool
    /\ pendingDiagnosis = NoDiagnosis
    /\ unit = NoCall
    /\ Fresh

PoolSpec == PoolInit /\ [][Next]_vars

(***************************************************************************)
(* Function level.  One call of a function of the program is followed on   *)
(* its own, on an argument drawn from a bounded set: unit holds the        *)
(* function, its argument and what it produced.                            *)
(***************************************************************************)
MaxLines == 3       \* lines of a text handed to send_safe_message: 1..MaxLines
MaxListing == 2     \* endpoints of a listing of genai.list_models(): 0..MaxListing

engineVars == <<prog, nKeys, token, targets, pc, keyIndex, model, attempt, genLog, rotLog,
                response, config, roll, path, bc, bcLog, sent, delivered, polls, qi,
                pendingDiagnosis>>

\* line lengths around the limit and its half
LineLens == {0, 1, MaxLength \div 2 - 1, MaxLength \div 2, MaxLength - 1, MaxLength,
             MaxLength + 1}

\* the texts: text.split('\n') as the sequence of the lengths of its lines
Texts == UNION {[1..k -> LineLens] : k \in 1..MaxLines}

Call(fn, arg, out) == [fn |-> fn, arg |-> arg, out |-> out, returned |-> TRUE]

UnitInit ==
    /\ prog = "orbit"
    /\ token = TRUE
    /\ targets = [i \in 1..NumTargets |-> "chat"]
    /\ nKeys = 1
    /\ pendingDiagnosis = NoDiagnosis
    /\ unit = NoCall
    /\ Fresh

\* send_safe_message(bot, chat_id, text): the chunks handed to send_chunk, in order
SendSafeMessage ==
    /\ unit = NoCall
    /\ \E text \in Texts : unit' = Call("send_safe_message", text, Chunks(text))
    /\ UNCHANGED engineVars

\* the endpoints a listing is made of
Catalogue ==
    {Endpoint(<<"models/">> \o n, g) :
        n \in {<<"gemini-pro">>, <<"embedding-001">>, <<"gemini-1.0-flash">>,
               <<"gemini-1.5-flash">>, <<"gemini-1.5-flash", "-latest">>,
               <<"gemini-2.0-flash">>, <<"gemini-2.0-flash", "-exp">>},
        g \in BOOLEAN}

\* what genai.list_models() may do: raise, or answer up to MaxListing endpoints
AllDiscovery ==
    {[err |-> TRUE, list |-> <<>>]}
        \cup {[err |-> FALSE, list |-> l] :
                 l \in UNION {[1..k -> Catalogue] : k \in 0..MaxListing}}

\* get_valid_model() / resolve_model_name(): the name of the model it returns
ResolveModelName ==
    /\ unit = NoCall
    /\ \E disc \in AllDiscovery : unit' = Call("get_valid_model", disc, ResolveName(disc))
    /\ UNCHANGED engineVars

UnitNext ==
    \/ SendSafeMessage
    \/ ResolveModelName

UnitSpec == UnitInit /\ [][UnitNext]_vars

(***************************************************************************)
(* Properties.                                                             *)
(***************************************************************************)

\* C1: for every draw d in 1..100 the dispatch selects exactly one outcome, always
\* the same for the same d: Silence for 1-50, Fact for 51-85, QuizBatch for 86-98,
\* MysteryCase for 99-100, and it enters the branch of that outcome and no other.
C1_DispatchPartition ==
    [][pc = "rolled" =>
         /\ roll \in 1..100
         /\ path' \in {"Silence", "Fact", "QuizBatch", "MysteryCase"}
         /\ (roll \in 1..50 <=> path' = "Silence")
         /\ (roll \in 51..85 <=> path' = "Fact")
         /\ (roll \in 86..98 <=> path' = "QuizBatch")
         /\ (roll \in 99..100 <=> path' = "MysteryCase")
         /\ (path' = "Silence" => pc' = "done")
         /\ (path' = "Fact" => pc' \in {"gen", "crashed"})
         /\ (path' = "QuizBatch" => pc' = "crashed" \/ (pc' = "bcast" /\ bc'.kind = "intro"))
         /\ (path' = "MysteryCase" => pc' = "bcast" /\ bc'.kind = "banner")]_vars

\* the dispatch has entered the MysteryCase branch: its banner is about to be sent
C1_Witness == path = "MysteryCase" /\ pc = "bcast" /\ bc.kind = "banner" /\ bcLog = <<>>

\* a mystery-case run whose response holds the section delimiter
MysteryWithDelimiter ==
    prog = "orbit" /\ path = "MysteryCase" /\ HasText(response) /\ response.body.delim

\* a mystery-case run whose response holds no section delimiter
MysteryWithoutDelimiter ==
    prog = "orbit" /\ path = "MysteryCase" /\ HasText(response) /\ ~response.body.delim

\* C4, as claimed: in a MysteryCase run whose response contains the delimiter, part 1
\* is delivered in that run, part 2 is not delivered to any destination in that run
\* and is written to durable state as PendingReveal.
C4_RevealDeferred ==
    MysteryWithDelimiter =>
        /\ "reveal" \notin delivered
        /\ (pc = "done" /\ "case" \in delivered => pendingDiagnosis # NoDiagnosis)

\* C4, amended: in a MysteryCase run whose response contains the delimiter, part 1 is
\* broadcast in that run and part 2 is broadcast in that same run, as the reveal that
\* follows the case text and the suspense notice; nothing is written to durable state.
C4_RevealSameRun ==
    MysteryWithDelimiter =>
        /\ pendingDiagnosis = NoDiagnosis
        /\ "fallback" \notin Range(sent)
        /\ sent \in {<<"banner">>, <<"banner", "case">>, <<"banner", "case", "suspense">>,
                     <<"banner", "case", "suspense", "reveal">>}
        /\ (pc = "done" => sent = <<"banner", "case", "suspense", "reveal">>)

\* the run has ended with the case text and the reveal both delivered
C4_Witness ==
    MysteryWithDelimiter /\ pc = "done" /\ {"case", "reveal"} \subseteq delivered

\* C5: in a MysteryCase run whose response does not contain the delimiter there is no
\* part 2: no reveal is broadcast, nothing is written to durable state, and the
\* fallback warning is broadcast after the case text.
C5_NoDelimiterFallback ==
    MysteryWithoutDelimiter =>
        /\ "reveal" \notin Range(sent)
        /\ "reveal" \notin delivered
        /\ pendingDiagnosis = NoDiagnosis
        /\ sent \in {<<"banner">>, <<"banner", "case">>, <<"banner", "case", "suspense">>,
                     <<"banner", "case", "suspense", "fallback">>}
        /\ (pc = "done" => sent = <<"banner", "case", "suspense", "fallback">>)

\* the run has ended with the case text and the fallback warning delivered
C5_Witness ==
    MysteryWithoutDelimiter /\ pc = "done" /\ {"case", "fallback"} \subseteq delivered

\* the requests of the current generate call under credential k all ended with out
AllUnder(k, out) == \A i \in 1..Len(genLog) : genLog[i].key = k => genLog[i].out = out

\* C6: with a pool [k1, k2] and the cursor at k1, if every request under k1 fails with
\* a quota error and the requests under k2 succeed, generate_content_safe returns
\* k2's output and the active index ends at k2's position (1).
C6_QuotaFailover ==
    ( /\ prog = "orbit" /\ pc = "resp" /\ nKeys = 2
      /\ genLog # <<>> /\ genLog[1].key = 0
      /\ AllUnder(0, "quota") /\ AllUnder(1, "ok") )
    => /\ response.kind = "text"
       /\ response.key = 1
       /\ keyIndex = 1
       /\ rotLog = <<TRUE>>

\* the call has returned after one quota failure under k1 and one success under k2
C6_Witness ==
    /\ prog = "orbit" /\ pc = "resp" /\ nKeys = 2
    /\ Len(genLog) = 2
    /\ genLog[1].key = 0 /\ genLog[1].out = "quota"
    /\ genLog[2].key = 1 /\ genLog[2].out = "ok"

\* C7: if every generation request fails with an Other-class error, one call of
\* generate_content_safe issues at most 3 requests and then yields None.
C7_OtherRetryBound ==
    ( /\ prog = "orbit" /\ genLog # <<>>
      /\ \A i \in 1..Len(genLog) : genLog[i].out = "other" )
    => /\ Len(genLog) <= 3
       /\ pc \in {"gen", "resp"}
       /\ (pc = "resp" => response = Absent)

\* the call has returned None after requests that all failed with an Other-class error
C7_Witness ==
    /\ prog = "orbit" /\ pc = "resp" /\ response = Absent
    /\ genLog # <<>>
    /\ \A i \in 1..Len(genLog) : genLog[i].out = "other"

\* C8: rotate_key (engine and dashboard) returns true exactly when the pool has more
\* than one credential, and then the active index becomes (old index + 1) mod pool
\* length; on a pool of size 1 it returns false and leaves the index unchanged. After
\* any sequence of rotate and generate operations the index is in [0, pool length).
C8_Rotation ==
    /\ [][Len(rotLog') = Len(rotLog) + 1 =>
            /\ rotLog'[Len(rotLog')] = (nKeys > 1)
            /\ (nKeys > 1 => keyIndex' = (keyIndex + 1) % nKeys)
            /\ (nKeys <= 1 => keyIndex' = keyIndex)]_vars
    /\ [](nKeys >= 1 => keyIndex \in 0..(nKeys - 1))

\* a call has rotated twice over a pool of two, and the cursor is back at the start
C8_Witness == nKeys = 2 /\ rotLog = <<TRUE, TRUE>> /\ keyIndex = 0

\* the generate call of this run has returned None
GeneratorAbsent == prog = "orbit" /\ response = Absent

\* C9, as claimed: whenever the generator yields absence in a run, no message of the
\* content path of that run is delivered to any destination, and the run ends normally.
C9_AbsentSilent ==
    GeneratorAbsent =>
        /\ delivered = {}
        /\ pc # "crashed"

\* C9, amended: whenever the generator yields absence in a run, the run ends normally
\* and nothing generated is sent: the Fact path sends nothing at all, the QuizBatch
\* path has sent only its intro (before the request) and sends no poll, and the
\* MysteryCase path has sent its banner (before the request) and sends one failure
\* notice after it.
C9_AbsentNoContent ==
    GeneratorAbsent =>
        /\ pc \in {"resp", "bcast", "done"}
        /\ polls = <<>>
        /\ delivered \subseteq {"intro", "banner", "sysfail"}
        /\ (path = "Fact" => sent = <<>> /\ delivered = {} /\ pc \in {"resp", "done"})
        /\ (path = "QuizBatch" => sent = <<"intro">> /\ pc \in {"resp", "done"})
        /\ (path = "MysteryCase" =>
               /\ sent \in {<<"banner">>, <<"banner", "sysfail">>}
               /\ (pc = "resp" <=> sent = <<"banner">>)
               /\ (pc = "bcast" => bc.kind = "sysfail"))

\* a mystery-case run has ended after the generator yielded absence, the failure
\* notice delivered
C9_Witness ==
    GeneratorAbsent /\ path = "MysteryCase" /\ pc = "done" /\ "sysfail" \in delivered

\* the targets of TARGET_IDS that are no placeholder
RealTargets == {d \in 1..NumTargets : ~IsPlaceholder(targets[d])}

\* the attempts the broadcast in progress made at destination d
AttemptsAt(d) == SelectSeq(bcLog, LAMBDA a : a.d = d)

\* C10: a delivery failure at one destination, for any chunk and on both the rich and
\* the plain attempt, never prevents broadcast_message from attempting delivery of the
\* same text to every other non-placeholder destination.
C10_FailureIsolated ==
    (pc = "bcast" /\ bc.d > NumTargets) =>
        /\ \A d \in RealTargets :
               /\ AttemptsAt(d) # <<>>
               /\ AttemptsAt(d)[1].c = 1
               /\ AttemptsAt(d)[1].fmt = "rich"
        /\ \A i \in 1..Len(bcLog) : bcLog[i].d \in RealTargets

\* a broadcast has ended in which the rich and the plain attempt of a chunk failed at
\* the first destination and the second destination was served
C10_Witness ==
    /\ pc = "bcast" /\ bc.d > NumTargets
    /\ \E i \in 1..Len(bcLog) :
           /\ bcLog[i].d = 1 /\ bcLog[i].fmt = "plain" /\ ~bcLog[i].ok
           /\ \E j \in (i+1)..Len(bcLog) : bcLog[j].d = 2 /\ bcLog[j].ok

\* the characters of a chunk, as the lengths of the lines '\n' splits it into
ChunkStr(ch) == IF ch.term THEN Append(ch.lines, 0) ELSE ch.lines

\* the concatenation of two strings given by their line lengths
StrCat(a, b) == SubSeq(a, 1, Len(a) - 1) \o <<a[Len(a)] + b[1]>> \o Tail(b)

RECURSIVE Join(_)
\* the concatenation of the chunks in the order they were sent
Join(chs) == IF chs = <<>> THEN <<0>> ELSE StrCat(ChunkStr(Head(chs)), Join(Tail(chs)))

\* C11: the chunks send_safe_message sends, concatenated in order, are the text
\* it was given: no character is added, dropped or moved, whatever the length of
\* the text (at most MaxLength, MaxLength + 1, a single line above MaxLength).
C11_ChunksRoundTrip ==
    unit.fn = "send_safe_message" => Join(unit.out) = unit.arg

\* C12: once load_config has returned a config, no failure crashes the run: for
\* every draw, generation outcome, delivery outcome and config content (an empty
\* interests or current_units list included) send_chaos ends normally, so the
\* run is never left by an exception.
C12_RunEndsNormally == pc # "crashed"

\* C13: when the credential pool is empty (or was never bound) or the Telegram
\* token is missing at startup, the engine goes from its start straight to exit
\* status 1, and no model is resolved, no generation request issued and no
\* delivery attempted.
C13_FatalStartup ==
    /\ [](prog = "orbit" /\ (~token \/ nKeys <= 0)
            => /\ pc \in {"boot", "exit1"}
               /\ model = NoModel
               /\ genLog = <<>> /\ response = NoResponse
               /\ sent = <<>> /\ bcLog = <<>> /\ delivered = {} /\ polls = <<>>)
    /\ [][prog = "orbit" /\ pc = "boot" /\ (~token \/ nKeys <= 0) => pc' = "exit1"]_vars

C13_Witness == prog = "orbit" /\ pc = "exit1" /\ ~token /\ nKeys = MaxPool

\* no endpoint of the listing supports generateContent
NoneGenerates(disc) == \A i \in 1..Len(disc.list) : ~disc.list[i].gen

\* C14: model resolution never aborts: when the discovery raises, or lists no
\* endpoint that supports generation, the resolver returns the default name
\* "gemini-1.5-flash" (engine get_valid_model and dashboard resolve_model_name).
C14_ResolveFallsBack ==
    unit.fn = "get_valid_model" /\ (unit.arg.err \/ NoneGenerates(unit.arg))
        => unit.returned /\ unit.out = <<"gemini-1.5-flash">>

C14_Witness ==
    /\ unit.fn = "get_valid_model"
    /\ ~unit.arg.err /\ Len(unit.arg.list) = MaxListing /\ NoneGenerates(unit.arg)
    /\ unit.out = DefaultModel

\* C15: after every successful rotate_key the model is resolved again under the
\* newly active credential, in the engine and in the dashboard alike: the model
\* in use was resolved under the active credential, and no request is issued
\* with a model resolved under another credential than the one it is sent with.
C15_ModelFollowsCredential ==
    /\ model # NoModel => model.cred = keyIndex
    /\ \A i \in 1..Len(genLog) : genLog[i].mcred = genLog[i].key

\* C15, amended: the engine's rotate_key resolves the model again under the new
\* credential, so every engine request carries a model resolved under the
\* credential it is sent with; the dashboard's rotate_key keeps the name resolved
\* once per session under the first credential.
C15_EngineReResolves ==
    /\ prog = "orbit"
          => /\ model # NoModel => model.cred = keyIndex
             /\ \A i \in 1..Len(genLog) : genLog[i].mcred = genLog[i].key
    /\ prog = "dashboard"
          => /\ model # NoModel => model.cred = 0
             /\ \A i \in 1..Len(genLog) : genLog[i].mcred = 0

C15_Witness ==
    /\ prog = "orbit" /\ rotLog = <<TRUE>>
    /\ Len(genLog) = 2 /\ genLog[2].key = 1 /\ genLog[2].mcred = 1

\* the quiz response parsed to a list of well-formed questions
WellFormedQuiz ==
    /\ path = "QuizBatch" /\ HasText(response) /\ response.body.qkind = "list"
    /\ \A i \in 1..Len(response.body.qs) : response.body.qs[i] = "ok"

PollsAt(d) == SelectSeq(polls, LAMBDA p : p.d = d)

\* C16: when the quiz response parses to a list of k well-formed questions, each
\* non-placeholder destination gets exactly k send_poll attempts, for questions
\* 1..k in the order of the list, and a placeholder destination gets none.
C16_PollsPerDestination ==
    WellFormedQuiz /\ pc \in {"polls", "done"}
        => \A d \in 1..NumTargets :
               /\ \A i \in 1..Len(PollsAt(d)) : PollsAt(d)[i].q = i
               /\ Len(PollsAt(d)) <= Len(response.body.qs)
               /\ IsPlaceholder(targets[d]) => PollsAt(d) = <<>>
               /\ pc = "done" /\ ~IsPlaceholder(targets[d])
                     => Len(PollsAt(d)) = Len(response.body.qs)

C16_Witness ==
    /\ WellFormedQuiz /\ pc = "done"
    /\ Len(response.body.qs) = MaxQuestions
    /\ RealTargets = {1} /\ Len(polls) = MaxQuestions

\* C17: at each destination the chunks of a text are sent in source order: the
\* attempts start at chunk 1, the attempts for chunk i+1 come only after those
\* for chunk i (a second attempt on a chunk is the plain one after a failed rich
\* one), and no chunk is sent twice successfully.
C17_ChunksInOrder ==
    \A d \in 1..NumTargets :
        LET at == AttemptsAt(d)
        IN  /\ at # <<>> => at[1].c = 1
            /\ \A i \in 1..(Len(at) - 1) :
                   /\ at[i+1].c \in {at[i].c, at[i].c + 1}
                   /\ at[i+1].c = at[i].c
                         => ~at[i].ok /\ at[i].fmt = "rich" /\ at[i+1].fmt = "plain"
            /\ \A i, j \in 1..Len(at) :
                   i < j /\ at[i].c = at[j].c => ~(at[i].ok /\ at[j].ok)

\* at the first destination chunk 1 went out on the plain attempt and chunk 2 followed
C17_Witness ==
    /\ Len(AttemptsAt(1)) = 3
    /\ AttemptsAt(1)[1] = Attempt(1, 1, "rich", FALSE)
    /\ AttemptsAt(1)[2] = Attempt(1, 1, "plain", TRUE)
    /\ AttemptsAt(1)[3] = Attempt(1, 2, "rich", TRUE)

\* the attempts of the retry loop of the generator in use
MaxAttempts == IF prog = "orbit" THEN MaxRetries ELSE DashMaxRetries(nKeys)

\* this step issues a request that fails with an error of class out
Fails(out) ==
    /\ pc = "gen"
    /\ Len(genLog') = Len(genLog) + 1
    /\ genLog'[Len(genLog')].out \in out

\* the classes that are neither not-found nor quota / auth for the generator in use
OtherClass == IF prog = "orbit" THEN {"other"} ELSE {"other", "404"}

\* C18: on an Other-class generation failure with attempts remaining the generator
\* (engine generate_content_safe, dashboard ask_orbit) goes on to the next request
\* with the same credential and the same model; it returns None only when the
\* attempts are exhausted.
C18_OtherRetried ==
    [][Fails(OtherClass)
          => IF attempt + 1 < MaxAttempts
                THEN /\ pc' = "gen" /\ response' = NoResponse
                     /\ keyIndex' = keyIndex /\ model' = model
                ELSE response' = Absent]_vars

\* a generate call has returned
Returned ==
    \/ prog = "orbit" /\ pc = "resp"
    \/ prog = "dashboard" /\ pc = "idle" /\ genLog # <<>>

\* the call began at the first credential; every request under a credential
\* before the last failed with a quota / auth error, every one under the last
\* succeeded
OnlyLastKeyWorks ==
    /\ genLog # <<>> /\ genLog[1].key = 0
    /\ \A i \in 1..Len(genLog) :
           genLog[i].out = (IF genLog[i].key = nKeys - 1 THEN "ok" ELSE "quota")

\* C19: the attempts used by rotation come on top of the 3 generic attempts: for
\* a pool of P credentials of which the first P-1 fail with quota / auth errors
\* and the last succeeds, the generator (engine and dashboard) returns the last
\* credential's output for every P >= 1, P = 4 included, within 3 + P requests.
C19_RotationAttemptsAdditional ==
    Returned /\ OnlyLastKeyWorks
        => /\ response.kind = "text"
           /\ response.key = nKeys - 1
           /\ Len(genLog) <= MaxRetries + nKeys

\* C20: when a request of generate_content_safe fails with a quota / auth error
\* and rotate_key returns False (a pool of one credential), the call does not end
\* at once: while attempts remain it goes on to the next request with the same
\* credential and the same model, and it returns None only once all 3 attempts
\* are used.
C20_QuotaNoBackupRetries ==
    [][prog = "orbit" /\ nKeys = 1 /\ Fails({"quota"})
          => /\ rotLog' = Append(rotLog, FALSE)
             /\ keyIndex' = keyIndex /\ model' = model
             /\ IF attempt + 1 < MaxRetries
                   THEN pc' = "gen" /\ response' = NoResponse
                   ELSE pc' = "resp" /\ response' = Absent]_vars

\* the call has returned None after three quota failures under the only credential
C20_Witness ==
    /\ prog = "orbit" /\ nKeys = 1 /\ pc = "resp" /\ response = Absent
    /\ rotLog = <<FALSE, FALSE, FALSE>>
    /\ Len(genLog) = MaxRetries
    /\ \A i \in 1..Len(genLog) : genLog[i].out = "quota" /\ genLog[i].key = 0

\* C21: when a request of generate_content_safe fails with a not-found error
\* ("404" in the message), the model is resolved again under the same credential:
\* the active index is unchanged, rotate_key is not called, and exactly one of
\* the 3 attempts is used.
C21_NotFoundReResolves ==
    [][prog = "orbit" /\ Fails({"404"})
          => /\ keyIndex' = keyIndex
             /\ rotLog' = rotLog
             /\ attempt' = attempt + 1
             /\ \E disc \in Discovery : model' = GetValidModel(disc, keyIndex)
             /\ IF attempt + 1 < MaxRetries
                   THEN pc' = "gen" /\ response' = NoResponse
                   ELSE pc' = "resp" /\ response' = Absent]_vars

\* with a backup credential at hand, a 404 was followed by a second request
\* under the first credential
C21_Witness ==
    /\ prog = "orbit" /\ nKeys = 2 /\ rotLog = <<>>
    /\ Len(genLog) = 2
    /\ genLog[1].out = "404" /\ genLog[2].key = 0 /\ genLog[2].mcred = 0

RECURSIVE LinesOf(_)
\* the lines of the chunks, in the order sent
LinesOf(chs) == IF chs = <<>> THEN <<>> ELSE Head(chs).lines \o LinesOf(Tail(chs))

\* C22: every chunk sent has at most MaxLength characters, except a chunk made
\* of one single line that is itself longer than MaxLength; a text of at most
\* MaxLength characters is sent as one chunk equal to the text; and no line is
\* split across chunks.
C22_ChunkLengthBound ==
    unit.fn = "send_safe_message"
        => /\ \A i \in 1..Len(unit.out) :
                  \/ ChunkLen(unit.out[i]) <= MaxLength
                  \/ Len(unit.out[i].lines) = 1 /\ unit.out[i].lines[1] > MaxLength
           /\ TextLen(unit.arg) <= MaxLength => unit.out = <<Chunk(unit.arg, FALSE)>>
           /\ LinesOf(unit.out) = unit.arg

\* the attempts made at destination d for chunk c of the text being broadcast
AttemptsFor(d, c) == SelectSeq(bcLog, LAMBDA a : a.d = d /\ a.c = c)

\* C23: for each chunk at each destination at most two send attempts are made,
\* the rich one and, only when it failed, the plain one; when the plain attempt
\* fails too the chunk is skipped and the remaining chunks of the text are still
\* sent to that destination, so a destination the broadcast has left was offered
\* every chunk.
C23_ChunkSkippedOnly ==
    pc = "bcast" =>
        \A d \in RealTargets :
            LET n == Len(Chunks(MessageText(bc.kind, response)))
            IN  /\ \A c \in 1..n :
                       LET at == AttemptsFor(d, c)
                       IN  /\ Len(at) <= 2
                           /\ Len(at) >= 1 => at[1].fmt = "rich"
                           /\ Len(at) = 2 => ~at[1].ok /\ at[2].fmt = "plain"
                /\ bc.d > d => \A c \in 1..n : AttemptsFor(d, c) # <<>>

\* the positions of the listing whose endpoint supports generation
Generating(disc) == {i \in 1..Len(disc.list) : disc.list[i].gen}

\* the generating endpoints of the stable fast tier, and of the fast family
\* outside the excluded family
StableFast(disc) ==
    {i \in Generating(disc) :
        /\ Contains(disc.list[i].name, "gemini-1.5-flash")
        /\ ~Contains(disc.list[i].name, "latest")
        /\ ~Contains(disc.list[i].name, "exp")}

FastFamily(disc) ==
    {i \in Generating(disc) :
        /\ Contains(disc.list[i].name, "flash")
        /\ ~Contains(disc.list[i].name, "gemini-2")
        /\ ~Contains(disc.list[i].name, "exp")}

\* the name of the first endpoint among the positions S, without "models/"
FirstOf(disc, S) ==
    StripModels(disc.list[CHOOSE i \in S : \A j \in S : i <= j].name)

\* C24: of the endpoints of the listing that support generation the resolver
\* returns the first one of the stable fast tier if there is one anywhere in the
\* list, else the first one of the fast family outside the excluded family, else
\* the first one in discovery order; the name returned is never taken from an
\* endpoint that does not support generation.
C24_ResolverPriority ==
    unit.fn = "get_valid_model" /\ ~unit.arg.err /\ Generating(unit.arg) # {}
        => /\ unit.out =
                  IF StableFast(unit.arg) # {} THEN FirstOf(unit.arg, StableFast(unit.arg))
                  ELSE IF FastFamily(unit.arg) # {}
                      THEN FirstOf(unit.arg, FastFamily(unit.arg))
                  ELSE FirstOf(unit.arg, Generating(unit.arg))
           /\ \E i \in Generating(unit.arg) : unit.out = StripModels(unit.arg.list[i].name)

\* a stable fast endpoint listed behind another endpoint of the fast family was chosen
C24_Witness ==
    /\ unit.fn = "get_valid_model" /\ ~unit.arg.err
    /\ Len(unit.arg.list) = 2
    /\ unit.arg.list[1] = Endpoint(<<"models/", "gemini-1.0-flash">>, TRUE)
    /\ unit.arg.list[2] = Endpoint(<<"models/", "gemini-1.5-flash">>, TRUE)
    /\ unit.out = <<"gemini-1.5-flash">>

\* the quiz response parsed to a list
QuizList == path = "QuizBatch" /\ HasText(response) /\ response.body.qkind = "list"

PollsOf(q, d) == SelectSeq(polls, LAMBDA p : p.q = q /\ p.d = d)

\* C25: in a quiz batch that parses to a list a malformed entry (a field
\* missing) yields no poll and does not keep the well-formed entries from being
\* polled at every non-placeholder destination, and the run does not crash.
C25_MalformedDropped ==
    QuizList
        => /\ pc \in {"resp", "polls", "done"}
           /\ \A i \in 1..Len(polls) : response.body.qs[polls[i].q] # "missing"
           /\ pc = "done"
                 => \A q \in 1..Len(response.body.qs), d \in RealTargets :
                        response.body.qs[q] = "ok" => Len(PollsOf(q, d)) = 1

\* a batch whose first entry lacks a field has ended with the second entry polled
C25_Witness ==
    /\ QuizList /\ pc = "done"
    /\ response.body.qs = <<"missing", "ok">>
    /\ RealTargets = 1..NumTargets
    /\ \A d \in RealTargets : Len(PollsOf(2, d)) = 1

\* C26: a quiz question whose correct_id does not index one of its options is
\* dropped: no send_poll call reaches the backend with a correct index outside
\* [0, number of options).
C26_BadIndexDropped ==
    \A i \in 1..Len(polls) : polls[i].flavour # "badidx"

\* C27: for every non-empty text every chunk send_safe_message hands to the
\* backend is non-empty, also when the first line of the text is by itself
\* longer than MaxLength.
C27_ChunksNonEmpty ==
    unit.fn = "send_safe_message" /\ TextLen(unit.arg) > 0
        => \A i \in 1..Len(unit.out) : ChunkLen(unit.out[i]) > 0

\* C28: under any mix of not-found, quota / auth and other failures and any pool
\* size, one call of generate_content_safe issues at most 3 requests and ends
\* with a response or with None: every request either ends the call or uses one
\* of the 3 attempts, so rotations and re-resolutions never extend the loop.
C28_AtMostThreeRequests ==
    /\ [](prog = "orbit" => Len(genLog) <= MaxRetries /\ attempt <= MaxRetries)
    /\ [][prog = "orbit" /\ pc = "gen"
            => \/ pc' = "resp" /\ response' # NoResponse
               \/ pc' = "gen" /\ attempt' = attempt + 1 /\ attempt' < MaxRetries]_vars

\* with a pool of LargePool credentials a call has ended with None after a
\* re-resolution and two rotations
C28_Witness ==
    /\ prog = "orbit" /\ nKeys = LargePool /\ pc = "resp" /\ response = Absent
    /\ Len(genLog) = MaxRetries
    /\ genLog[1].out = "404" /\ genLog[2].out = "quota" /\ genLog[3].out = "quota"
    /\ rotLog = <<TRUE, TRUE>>

====
